---------------------------- MODULE Spec2Model ----------------------------
(***************************************************************************)
(* A model of fetch_news.py: the scheduler loop, one run of                *)
(* fetch_and_process_news (clear, fetch, per-entry filter / thumbnail /    *)
(* translation, write) and the snapshot file news_data.json.               *)
(*                                                                         *)
(* Python strings are modelled as sequences of one-character strings, so   *)
(* that substring tests, lower(), word boundaries and slicing are computed *)
(* and not assumed.  A non-ASCII code point is written "uXXXX".            *)
(***************************************************************************)
EXTENDS Integers, Sequences, FiniteSets, TLC

(***************************************************************************)
(* Strings                                                                 *)
(***************************************************************************)
UpperLetters ==
    <<"A", "B", "C", "D", "E", "F", "G", "H", "I", "J", "K", "L", "M",
      "N", "O", "P", "Q", "R", "S", "T", "U", "V", "W", "X", "Y", "Z">>

LowerLetters ==
    <<"a", "b", "c", "d", "e", "f", "g", "h", "i", "j", "k", "l", "m",
      "n", "o", "p", "q", "r", "s", "t", "u", "v", "w", "x", "y", "z">>

Digits == {"0", "1", "2", "3", "4", "5", "6", "7", "8", "9"}

\* Devanagari letters (category Lo) and vowel signs (category Mc/Mn) that
\* occur in the texts of the model.
DevanagariLetters == {"u0932", "u0924", "u0930", "u091A"}
DevanagariSigns == {"u093E", "u0942"}

\* The glyphs the translation backend produces for Latin letters.
MrGlyphs ==
    <<"mr_a", "mr_b", "mr_c", "mr_d", "mr_e", "mr_f", "mr_g", "mr_h", "mr_i",
      "mr_j", "mr_k", "mr_l", "mr_m", "mr_n", "mr_o", "mr_p", "mr_q", "mr_r",
      "mr_s", "mr_t", "mr_u", "mr_v", "mr_w", "mr_x", "mr_y", "mr_z">>

Range(s) == {s[i] : i \in DOMAIN s}

IndexIn(s, c) == CHOOSE i \in DOMAIN s : s[i] = c

\* str.lower() on one character.
LowerChar(c) ==
    IF c \in Range(UpperLetters) THEN LowerLetters[IndexIn(UpperLetters, c)]
    ELSE c

\* str.lower()
Lower(s) == [i \in DOMAIN s |-> LowerChar(s[i])]

\* str.isascii()
IsAscii(s) ==
    \A i \in DOMAIN s :
        s[i] \notin (DevanagariLetters \cup DevanagariSigns \cup Range(MrGlyphs))

\* needle in hay  (Python substring test; the empty needle is in every string)
Contains(hay, needle) ==
    \E i \in 0..(Len(hay) - Len(needle)) :
        \A j \in 1..Len(needle) : hay[i + j] = needle[j]

\* The characters the regex class \w matches (str patterns are Unicode-aware:
\* letters, digits and the underscore; combining vowel signs are not letters).
IsWordChar(c) ==
    \/ c \in Range(UpperLetters)
    \/ c \in Range(LowerLetters)
    \/ c \in Digits
    \/ c = "_"
    \/ c \in DevanagariLetters
    \/ c \in Range(MrGlyphs)

\* \b between position p and p+1 of text (p in 0..Len(text)).
WordBoundary(text, p) ==
    LET before == p >= 1 /\ IsWordChar(text[p])
        after == p + 1 <= Len(text) /\ IsWordChar(text[p + 1])
    IN before # after

\* re.search(r'\b' + re.escape(word) + r'\b', text)
SearchWholeWord(word, text) ==
    \E i \in 0..(Len(text) - Len(word)) :
        /\ \A j \in 1..Len(word) : text[i + j] = word[j]
        /\ WordBoundary(text, i)
        /\ WordBoundary(text, i + Len(word))

(***************************************************************************)
(* Configuration (the lists are cut down to the entries the texts of the   *)
(* model can meet; order is the declaration order of the source).          *)
(***************************************************************************)
DISTRICT_KEYWORDS ==
    << <<"L", "a", "t", "u", "r">>,
       <<"A", "u", "s", "a">>,
       <<"u0932", "u093E", "u0924", "u0942", "u0930">> >>

\* The registry as the sequence of its (label, domain) pairs.
SOURCE_DOMAINS ==
    << << <<"L", "o", "k", "m", "a", "t">>,
          <<"l", "o", "k", "m", "a", "t", ".", "c", "o", "m">> >>,
       << <<"N", "e", "w", "s", "1", "8">>,
          <<"n", "e", "w", "s", "1", "8", ".", "c", "o", "m">> >>,
       << <<"N", "e", "w", "s", "1", "8", " ", "L", "o", "k", "m", "a", "t">>,
          <<"n", "e", "w", "s", "1", "8", ".", "c", "o", "m">> >>,
       << <<"E", "k", "m", "a", "t">>,
          <<"e", "k", "m", "a", "t", ".", "c", "o", "m">> >> >>

TRUSTED_SOURCES ==
    << <<"A", "a", "j", " ", "L", "a", "t", "u", "r">>,
       <<"E", "k", "m", "a", "t">> >>

LogoServicePrefix ==
    <<"h", "t", "t", "p", "s", ":", "/", "/", "l", "o", "g", "o", ".", "c", "l",
      "e", "a", "r", "b", "i", "t", ".", "c", "o", "m", "/">>

PlaceholderImage ==
    <<"h", "t", "t", "p", "s", ":", "/", "/", "v", "i", "a", ".", "p", "l", "a",
      "c", "e", "h", "o", "l", "d", "e", "r", ".", "c", "o", "m", "/", "3", "0",
      "0", "x", "2", "0", "0", "?", "t", "e", "x", "t", "=", "L", "a", "t", "u",
      "r", "+", "N", "e", "w", "s">>

DefaultSourceLabel ==
    <<"N", "e", "w", "s", " ", "P", "o", "r", "t", "a", "l">>

\* description[:500]
DescLimit == 500

(***************************************************************************)
(* is_relevant                                                             *)
(***************************************************************************)
KeywordMatches(keyword, text_lower) ==
    IF IsAscii(keyword)
    THEN SearchWholeWord(Lower(keyword), text_lower)
    ELSE Contains(text_lower, Lower(keyword))

is_relevant(text) ==
    IF text = <<>> THEN FALSE
    ELSE \E k \in DOMAIN DISTRICT_KEYWORDS :
            KeywordMatches(DISTRICT_KEYWORDS[k], Lower(text))


(***************************************************************************)
(* Raw entries.  An entry is a feedparser dictionary: `fields` is the set  *)
(* of keys it has ('source' in entry), reading a key it lacks raises       *)
(* AttributeError.  The summary is markup: a sequence of text nodes and    *)
(* img tags.  A published-date string is what dateutil makes of it: it     *)
(* fails to parse (ok = FALSE) or gives a wall-clock time, with or without *)
(* a UTC offset.  Time is counted in quarter days.                         *)
(***************************************************************************)
TextNode(s) == [tag |-> "text", text |-> s, has_src |-> FALSE, src |-> <<>>]
ImgNode(url) == [tag |-> "img", text |-> <<>>, has_src |-> TRUE, src |-> url]
ImgNoSrc == [tag |-> "img", text |-> <<>>, has_src |-> FALSE, src |-> <<>>]

RECURSIVE get_text(_)
\* BeautifulSoup(markup, "html.parser").get_text()
get_text(markup) ==
    IF markup = <<>> THEN <<>>
    ELSE (IF Head(markup).tag = "text" THEN Head(markup).text ELSE <<>>)
         \o get_text(Tail(markup))

\* BeautifulSoup(markup, "html.parser").find('img'): the index of the first
\* img tag, 0 for None.
find_img(markup) ==
    IF \E i \in DOMAIN markup : markup[i].tag = "img"
    THEN CHOOSE i \in DOMAIN markup :
            /\ markup[i].tag = "img"
            /\ \A j \in 1..(i - 1) : markup[j].tag # "img"
    ELSE 0

\* The offset of the local system time zone, in quarter days (dt.astimezone()).
LocalUtcOffset == 1

\* dt = dateutil.parser.parse(s); if dt.tzinfo: dt = dt.astimezone(); dt.date()
LocalDate(published) ==
    LET wall == IF published.tz
                THEN published.wall - published.off + LocalUtcOffset
                ELSE published.wall
    IN wall \div 4

\* The date check with the parse failure not handled as "not today".
IsTodayLenient(published, clock) ==
    IF ~published.ok THEN TRUE
    ELSE LocalDate(published) = clock \div 4

\* Lines 209-222: is_today
IsToday(published, clock) ==
    IF ~published.ok THEN FALSE
    ELSE LocalDate(published) = clock \div 4

\* any(trusted in source_title for trusted in TRUSTED_SOURCES)
IsTrusted(source_title) ==
    \E k \in DOMAIN TRUSTED_SOURCES : Contains(source_title, TRUSTED_SOURCES[k])

\* entry.source.title if 'source' in entry else ""
SourceTitle(entry) == IF "source" \in entry.fields THEN entry.source ELSE <<>>

\* Lines 197-203: FALSE when the entry is skipped as unrelated.
PassesRelevance(entry) ==
    \/ IsTrusted(SourceTitle(entry))
    \/ is_relevant(entry.title)
    \/ is_relevant(IF "summary" \in entry.fields
                   THEN get_text(entry.summary) ELSE <<>>)

(***************************************************************************)
(* Thumbnail                                                               *)
(***************************************************************************)
\* SOURCE_DOMAINS.get(source_name); <<>> stands for None.
ExactDomain(source_name) ==
    IF \E k \in DOMAIN SOURCE_DOMAINS : SOURCE_DOMAINS[k][1] = source_name
    THEN SOURCE_DOMAINS[CHOOSE k \in DOMAIN SOURCE_DOMAINS :
                            SOURCE_DOMAINS[k][1] = source_name][2]
    ELSE <<>>

RECURSIVE PartialDomain(_, _)
\* for name, dom in SOURCE_DOMAINS.items(): if name.lower() in
\* source_name.lower(): domain = dom; break      (from the k-th pair on)
PartialDomain(source_name, k) ==
    IF k > Len(SOURCE_DOMAINS) THEN <<>>
    ELSE IF Contains(Lower(source_name), Lower(SOURCE_DOMAINS[k][1]))
         THEN SOURCE_DOMAINS[k][2]
         ELSE PartialDomain(source_name, k + 1)

RECURSIVE PartialDomainCaseSensitive(_, _)
PartialDomainCaseSensitive(source_name, k) ==
    IF k > Len(SOURCE_DOMAINS) THEN <<>>
    ELSE IF Contains(source_name, SOURCE_DOMAINS[k][1])
         THEN SOURCE_DOMAINS[k][2]
         ELSE PartialDomainCaseSensitive(source_name, k + 1)

ResolveDomainCaseSensitive(source_name) ==
    IF ExactDomain(source_name) # <<>> THEN ExactDomain(source_name)
    ELSE PartialDomainCaseSensitive(source_name, 1)

\* Lines 245-251
ResolveDomain(source_name) ==
    IF ExactDomain(source_name) # <<>> THEN ExactDomain(source_name)
    ELSE PartialDomain(source_name, 1)

\* Lines 231-239: the src of the first img tag, "" when there is none, when it
\* has no src, or when reading entry.summary raises.
EmbeddedImage(entry) ==
    IF "summary" \notin entry.fields THEN <<>>
    ELSE LET i == find_img(entry.summary)
         IN IF i # 0 /\ entry.summary[i].has_src
            THEN entry.summary[i].src ELSE <<>>

\* Lines 228-258: <<image_url, is_logo>>
Thumbnail(entry) ==
    LET image_url == EmbeddedImage(entry)
    IN IF \/ image_url = <<>>
          \/ Contains(image_url, <<"t", "r", "a", "c", "k", "e", "r">>)
          \/ Contains(image_url, <<"p", "i", "x", "e", "l">>)
       THEN LET domain == ResolveDomain(SourceTitle(entry))
            IN IF domain # <<>>
               THEN <<LogoServicePrefix \o domain, TRUE>>
               ELSE <<PlaceholderImage, FALSE>>
       ELSE <<image_url, FALSE>>

(***************************************************************************)
(* Translation.  The backend is modelled by what it returns: the text with *)
(* every Latin letter, of either case, replaced by a Marathi glyph.  What  *)
(* one call does is an outcome: detection says 'mr', or raises; or it says *)
(* another language and the title translation raises, the description     *)
(* translation raises, or both succeed.                                    *)
(***************************************************************************)
TranslationOutcomes == {"mr", "detect_fails", "title_fails", "desc_fails", "ok"}

\* TRANSLATOR.translate(text, dest='mr').text
Translate(text) ==
    [i \in DOMAIN text |->
        IF LowerChar(text[i]) \in Range(LowerLetters)
        THEN MrGlyphs[IndexIn(LowerLetters, LowerChar(text[i]))]
        ELSE text[i]]

\* description[:500]
Truncate(description) ==
    SubSeq(description, 1,
           IF Len(description) < DescLimit THEN Len(description) ELSE DescLimit)

\* Lines 264-278: <<title, description>> after the try block.  The title is
\* assigned before the description is translated.
NormalizeLanguage(title, description, outcome) ==
    CASE outcome \in {"mr", "detect_fails", "title_fails"} ->
            <<title, description>>
      [] outcome = "desc_fails" -> <<Translate(title), description>>
      [] outcome = "ok" -> <<Translate(title), Translate(Truncate(description))>>

\* Lines 284-292
NewsItem(entry, title, description, thumb) ==
    [title |-> title,
     link |-> entry.link,
     date |-> entry.published,
     image |-> thumb[1],
     is_logo |-> thumb[2],
     source |-> IF "source" \in entry.fields THEN entry.source
                ELSE DefaultSourceLabel,
     description |-> description]


(***************************************************************************)
(* The feeds the retrieval can return.                                     *)
(***************************************************************************)
AllFields == {"title", "link", "published", "summary", "source"}

NoDate == [ok |-> FALSE, tz |-> FALSE, wall |-> 0, off |-> 0]
Unparseable == [ok |-> FALSE, tz |-> FALSE, wall |-> 0, off |-> 0]
MiddayUtc == [ok |-> TRUE, tz |-> TRUE, wall |-> 5, off |-> 0]
LateEveningUtc == [ok |-> TRUE, tz |-> TRUE, wall |-> 3, off |-> 0]
LateEveningNaive == [ok |-> TRUE, tz |-> FALSE, wall |-> 3, off |-> 0]

Entry(fields, title, link, published, summary, source) ==
    [fields |-> fields, title |-> title, link |-> link,
     published |-> published, summary |-> summary, source |-> source]

\* "Latur A" from Lokmat, with an article image.
EntryLokmat ==
    Entry(AllFields, <<"L", "a", "t", "u", "r", " ", "A">>, "link1", MiddayUtc,
          <<TextNode(<<"x">>),
            ImgNode(<<"a", ".", "i", "n", "/", "p", ".", "j", "p", "g">>)>>,
          <<"L", "o", "k", "m", "a", "t">>)

\* "Latur a" from "news18 lokmat", whose only image is a tracking pixel.
EntryNews18 ==
    Entry(AllFields, <<"L", "a", "t", "u", "r", " ", "a">>, "link2",
          LateEveningUtc,
          <<ImgNode(<<"a", ".", "i", "n", "/", "p", "i", "x", "e", "l">>),
            TextNode(<<"1">>)>>,
          <<"n", "e", "w", "s", "1", "8", " ", "l", "o", "k", "m", "a", "t">>)

\* "B" from the trusted "Dainik Ekmat": no keyword, no image.
EntryTrusted ==
    Entry(AllFields, <<"B">>, "link3", MiddayUtc, <<TextNode(<<"2">>)>>,
          <<"D", "a", "i", "n", "i", "k", " ", "E", "k", "m", "a", "t">>)

\* The same entry dated the day before.
EntryTrustedOld ==
    Entry(AllFields, <<"B">>, "link3", LateEveningNaive, <<TextNode(<<"2">>)>>,
          <<"D", "a", "i", "n", "i", "k", " ", "E", "k", "m", "a", "t">>)

\* "Ausa" from Mint, whose date does not parse.
EntryBadDate ==
    Entry(AllFields, <<"A", "u", "s", "a">>, "link4", Unparseable,
          <<TextNode(<<"z">>)>>, <<"M", "i", "n", "t">>)

\* "C" with no source, relevant by its Marathi description, img without src.
EntryMarathi ==
    Entry(AllFields \ {"source"}, <<"C">>, "link5", MiddayUtc,
          <<ImgNoSrc,
            TextNode(<<"u0932", "u093E", "u0924", "u0942", "u0930", "u091A",
                       "u093E">>)>>,
          <<>>)

\* "Causal": no keyword as a whole word, not trusted.
EntryUnrelated ==
    Entry(AllFields \ {"source"}, <<"C", "a", "u", "s", "a", "l">>, "link6",
          MiddayUtc, <<TextNode(<<"q">>)>>, <<>>)

\* "Ausa" with no published date.
EntryNoPublished ==
    Entry(AllFields \ {"published"}, <<"A", "u", "s", "a">>, "link7", NoDate,
          <<TextNode(<<"z">>)>>, <<"M", "i", "n", "t">>)

\* "D" from the trusted Ekmat with no summary.
EntryNoSummary ==
    Entry(AllFields \ {"summary"}, <<"D">>, "link8", MiddayUtc, <<>>,
          <<"E", "k", "m", "a", "t">>)

\* A Marathi title with a description of DescLimit + 2 characters.
EntryLong ==
    Entry(AllFields, <<"u0932", "u093E", "u0924", "u0942", "u0930">>, "link9",
          MiddayUtc,
          <<TextNode([i \in 1..(DescLimit + 2) |->
                        IF i <= DescLimit THEN "7" ELSE "8"])>>,
          <<"L", "o", "k", "m", "a", "t">>)

Feeds ==
    { <<EntryLokmat, EntryNews18>>,
      <<EntryTrustedOld, EntryTrusted>>,
      <<EntryBadDate, EntryMarathi, EntryLong>>,
      <<EntryUnrelated, EntryNoPublished>>,
      <<EntryNoSummary>> }

\* The queries of one run (QUERIES, cut down).
QUERIES == <<"Latur District News when:1d", "site:lokmat.com Latur when:1d">>


(***************************************************************************)
(* State                                                                   *)
(***************************************************************************)
VARIABLES
    pc,           \* where the process is: "boot", "clear", "fetch", "process",
                  \* "open", "dump", "sleep" (run_scheduler's loop), "dead"
    run,          \* the number of calls of fetch_and_process_news so far
    now,          \* the local clock, in quarter days
    file,         \* news_data.json
    qi,           \* the index in QUERIES of the query to fetch next
    all_entries,
    ei,           \* the index in all_entries of the entry to process next
    news_items,
    seen_titles,
    fault         \* what raised the exception that ended the process

vars ==
    <<pc, run, now, file, qi, all_entries, ei, news_items, seen_titles, fault>>

\* Bounds of the model.
MaxRuns == 2
MaxClock == 8

Absent == [kind |-> "absent", run |-> 0, items |-> <<>>]

\* The file exists before the process starts when an earlier process wrote it.
Init ==
    /\ pc = "boot"
    /\ run = 0
    /\ now = 7
    /\ file \in {Absent, [kind |-> "complete", run |-> 0, items |-> <<>>]}
    /\ qi = 1
    /\ all_entries = <<>>
    /\ ei = 1
    /\ news_items = <<>>
    /\ seen_titles = {}
    /\ fault = "none"

Locals == <<qi, all_entries, ei, news_items, seen_titles>>

\* The locals of fetch_and_process_news do not outlive the call.
LocalsGone ==
    /\ qi' = 1
    /\ all_entries' = <<>>
    /\ ei' = 1
    /\ news_items' = <<>>
    /\ seen_titles' = {}

(***************************************************************************)
(* run_scheduler                                                           *)
(***************************************************************************)
\* Line 303: the first call.
ImmediateRun ==
    /\ pc = "boot"
    /\ pc' = "clear"
    /\ run' = run + 1
    /\ UNCHANGED <<now, file, Locals, fault>>

\* Lines 308-310: schedule.run_pending() finds the job due and calls it.
ScheduledRun ==
    /\ pc = "sleep"
    /\ run < MaxRuns
    /\ pc' = "clear"
    /\ run' = run + 1
    /\ UNCHANGED <<now, file, Locals, fault>>

\* Line 310: time passes in the scheduler loop (a run is short against the
\* quarter day the clock counts in).
Tick ==
    /\ pc = "sleep"
    /\ now < MaxClock
    /\ now' = now + 1
    /\ UNCHANGED <<pc, run, file, Locals, fault>>

(***************************************************************************)
(* fetch_and_process_news                                                  *)
(***************************************************************************)
\* Lines 153-160: os.remove succeeds, or raises and the warning is printed.
ClearOldData ==
    /\ pc = "clear"
    /\ \E removed \in BOOLEAN :
          file' = IF file.kind # "absent" /\ removed THEN Absent ELSE file
    /\ all_entries' = <<>>
    /\ qi' = 1
    /\ pc' = "fetch"
    /\ UNCHANGED <<run, now, ei, news_items, seen_titles, fault>>

\* Lines 163-173: one iteration of the loop over QUERIES; feedparser.parse
\* returns a feed or raises.  After the last query the entry loop starts.
FetchQuery ==
    /\ pc = "fetch"
    /\ qi <= Len(QUERIES)
    /\ \E feed \in Feeds \cup {<<>>} :
          /\ all_entries' = all_entries \o feed
          /\ pc' = IF qi < Len(QUERIES) THEN "fetch"
                   ELSE IF all_entries' = <<>> THEN "open" ELSE "process"
    /\ qi' = qi + 1
    /\ ei' = 1
    /\ news_items' = <<>>
    /\ seen_titles' = {}
    /\ UNCHANGED <<run, now, file, fault>>

\* Lines 179-292: the body of the loop for one entry.  The result is the
\* new seen_titles and news_items, or raised = TRUE when a line outside a
\* try block raises.
EntryStep(entry, seen, items, clock, outcome) ==
    LET same == [raised |-> FALSE, seen |-> seen, items |-> items]
        raise == [raised |-> TRUE, seen |-> seen, items |-> items]
    IN  IF "title" \notin entry.fields \/ "link" \notin entry.fields THEN raise
        ELSE IF entry.title \in seen THEN same
        ELSE IF ~PassesRelevance(entry) THEN same
        ELSE IF "published" \notin entry.fields THEN raise
        ELSE IF ~IsToday(entry.published, clock)
             THEN [same EXCEPT !.seen = seen \cup {entry.title}]
        ELSE IF "summary" \notin entry.fields THEN raise
        ELSE LET text == NormalizeLanguage(entry.title,
                                           get_text(entry.summary), outcome)
             IN [raised |-> FALSE,
                 seen |-> seen \cup {entry.title},
                 items |-> Append(items, NewsItem(entry, text[1], text[2],
                                                   Thumbnail(entry)))]

ProcessEntry ==
    /\ pc = "process"
    /\ ei <= Len(all_entries)
    /\ \E r \in {EntryStep(all_entries[ei], seen_titles, news_items, now, o) :
                    o \in TranslationOutcomes} :
          /\ seen_titles' = r.seen
          /\ news_items' = r.items
          /\ pc' = IF r.raised THEN "dead"
                   ELSE IF ei < Len(all_entries) THEN "process" ELSE "open"
          /\ fault' = IF r.raised THEN "entry" ELSE fault
    /\ ei' = ei + 1
    /\ UNCHANGED <<run, now, file, qi, all_entries>>

\* Line 295: open(JSON_FILE, "w") truncates the file, or raises.
OpenFile ==
    /\ pc = "open"
    /\ \E opened \in BOOLEAN :
          IF opened
          THEN /\ file' = [kind |-> "partial", run |-> run, items |-> <<>>]
               /\ pc' = "dump"
               /\ fault' = fault
          ELSE /\ file' = file
               /\ pc' = "dead"
               /\ fault' = "open"
    /\ UNCHANGED <<run, now, Locals>>

\* Line 296: json.dump writes the items one after the other; what is written
\* reaches the file before the rest is.
DumpItem ==
    /\ pc = "dump"
    /\ Len(file.items) < Len(news_items)
    /\ file' = [file EXCEPT
                  !.items = Append(@, news_items[Len(file.items) + 1])]
    /\ UNCHANGED <<pc, run, now, Locals, fault>>

\* Line 296: a write raises (the disk is full); the file keeps what it got.
DumpFails ==
    /\ pc = "dump"
    /\ pc' = "dead"
    /\ fault' = "dump"
    /\ UNCHANGED <<run, now, file, Locals>>

\* Lines 296-298: the last write, the file is closed, success is printed and
\* the call returns to the scheduler loop.
CloseFile ==
    /\ pc = "dump"
    /\ Len(file.items) = Len(news_items)
    /\ file' = [file EXCEPT !.kind = "complete"]
    /\ pc' = "sleep"
    /\ LocalsGone
    /\ UNCHANGED <<run, now, fault>>

Step ==
    \/ ImmediateRun
    \/ ScheduledRun
    \/ ClearOldData
    \/ FetchQuery
    \/ ProcessEntry
    \/ OpenFile
    \/ DumpItem
    \/ DumpFails
    \/ CloseFile

Next == Step \/ Tick

Spec == Init /\ [][Next]_vars

\* The process is single-threaded and runs whenever it can.
FairSpec == Spec /\ WF_vars(Step)


(***************************************************************************)
(* Properties                                                              *)
(***************************************************************************)
\* The entry the loop is at, and whether the step just taken published it.
AtEntry == pc = "process" /\ ei <= Len(all_entries)
Published == Len(news_items') = Len(news_items) + 1
NewItem == news_items'[Len(news_items')]

\* The titles an entry can be published under.
TitlesOf(entry) == {entry.title, Translate(entry.title)}

\* C1: the collection written as the snapshot holds no two items with the
\* same title.
C1_SnapshotTitlesUnique ==
    file.kind = "complete" =>
        \A i, j \in DOMAIN file.items :
            i # j => file.items[i].title # file.items[j].title

\* C2: an entry from a trusted source whose title and description match no
\* keyword is in the output collection when it is dated today, and is not
\* published when it is dated another day.
C2_TrustedBypassesKeywordsNotRecency ==
    [][ (/\ AtEntry
         /\ AllFields \subseteq all_entries[ei].fields
         /\ IsTrusted(all_entries[ei].source)
         /\ ~is_relevant(all_entries[ei].title)
         /\ ~is_relevant(get_text(all_entries[ei].summary)))
        => IF /\ all_entries[ei].published.ok
              /\ LocalDate(all_entries[ei].published) = now \div 4
           THEN \E k \in DOMAIN news_items' :
                    news_items'[k].title \in TitlesOf(all_entries[ei])
           ELSE news_items' = news_items ]_vars

\* C3: an entry whose published date does not parse is never published, and
\* the failure to parse it does not end the run.
C3_UnparseableDateExcluded ==
    /\ [](/\ \A k \in DOMAIN news_items : news_items[k].date.ok
          /\ \A k \in DOMAIN file.items : file.items[k].date.ok)
    /\ [][ (/\ AtEntry
            /\ {"title", "link", "published"} \subseteq all_entries[ei].fields
            /\ ~all_entries[ei].published.ok)
           => (pc' # "dead" /\ news_items' = news_items) ]_vars

\* An entry with an unparseable date passed the relevance filter, was dropped
\* by the date check, and the run went on.
C3_Witness ==
    /\ pc \in {"process", "open"}
    /\ ei > 1
    /\ "published" \in all_entries[ei - 1].fields
    /\ ~all_entries[ei - 1].published.ok
    /\ all_entries[ei - 1].title \in seen_titles
    /\ \A k \in DOMAIN news_items :
          news_items[k].link # all_entries[ei - 1].link

\* The registry keys, as the claim resolves a label: the exact key, else the
\* first key in declaration order that is a case-insensitive substring.
ExactKeys(label) ==
    {k \in DOMAIN SOURCE_DOMAINS : SOURCE_DOMAINS[k][1] = label}
SubstringKeys(label) ==
    {k \in DOMAIN SOURCE_DOMAINS :
        Contains(Lower(label), Lower(SOURCE_DOMAINS[k][1]))}
Earliest(keys) == CHOOSE k \in keys : \A m \in keys : k <= m
Resolves(label) == ExactKeys(label) \cup SubstringKeys(label) # {}
ResolvedDomain(label) ==
    SOURCE_DOMAINS[IF ExactKeys(label) # {} THEN Earliest(ExactKeys(label))
                   ELSE Earliest(SubstringKeys(label))][2]

\* The img tags of an entry's summary, and whether the entry has no usable
\* thumbnail of its own.
ImgTags(entry) == {i \in DOMAIN entry.summary : entry.summary[i].tag = "img"}
LooksLikeTracker(url) ==
    \/ Contains(url, <<"t", "r", "a", "c", "k", "e", "r">>)
    \/ Contains(url, <<"p", "i", "x", "e", "l">>)
NoArticleImage(entry) ==
    \/ ImgTags(entry) = {}
    \/ /\ entry.summary[Earliest(ImgTags(entry))].has_src
       /\ LooksLikeTracker(entry.summary[Earliest(ImgTags(entry))].src)

C5_NoStaleSnapshotDuringRun ==
    pc \in {"fetch", "process", "open", "dead"} =>
        ~(file.kind # "absent" /\ file.run < run)

\* C6: the file is absent or holds one complete snapshot.
C6_SnapshotNeverPartial == file.kind \in {"absent", "complete"}

\* C7: a published item carries the original title and description, or the
\* translated title and the translation of the first DescLimit characters of
\* the description; never one of each.
C7_TranslationAllOrNothing ==
    [][ (AtEntry /\ Published) =>
        LET entry == all_entries[ei]
            description == get_text(entry.summary)
        IN  <<NewItem.title, NewItem.description>> \in
                { <<entry.title, description>>,
                  <<Translate(entry.title),
                    Translate(Truncate(description))>> } ]_vars

\* C8: a fault while processing one entry does not end the run.
C8_EntryFaultsIsolated == ~(pc = "dead" /\ fault = "entry")

\* C9: after a failed write a later run writes a complete snapshot.
C9_FailedWriteRecovered ==
    (fault \in {"open", "dump"}) ~> (pc = "sleep" /\ file.kind = "complete")

\* C10: an entry is skipped as a duplicate only if an entry with its title
\* was published earlier in the run.
C10_DuplicateOnlyOfPublished ==
    (AtEntry /\ all_entries[ei].title \in seen_titles) =>
        \E k \in DOMAIN news_items :
            news_items[k].title \in TitlesOf(all_entries[ei])

=============================================================================
